---- MODULE Spec2Model ----
(***************************************************************************)
(* Personal task manager: the JSON file store, the Task model, the REST    *)
(* handlers and the time-tracking operations.                              *)
(*                                                                         *)
(* A JavaScript object is a record whose DOMAIN holds the keys that are    *)
(* defined; text is a sequence of one-character strings; an instant is a   *)
(* number of clock ticks (the ISO text of an instant is its only other     *)
(* form, and the two convert exactly).                                     *)
(*                                                                         *)
(* The repository's sources hold the store, the Task class (constructor,   *)
(* validate, touch, toJSON, findAll, findById, create, update, delete) and *)
(* every route handler.  The time-tracking methods the timer routes call   *)
(* (startTimeTracking, stopTimeTracking, stopAllActiveTimers,              *)
(* getTimeTrackingStats) are not among them: they are modelled from the    *)
(* specification's Timer Coordinator section and marked so below.          *)
(***************************************************************************)
EXTENDS Integers, Sequences, FiniteSets, TLC

VARIABLES
  tasksFile,  \* the backing JSON file: [exists, valid, data]
  now,        \* the wall clock
  nextId,     \* the next identifier uuidv4() hands out
  before,     \* the persisted collection when the last request arrived
  resp,       \* the last request and its response
  inflight    \* the requests suspended at an await, with what they loaded

vars == <<tasksFile, now, nextId, before, resp, inflight>>

(* ---- bounds: identifiers handed out, clock ticks, and sessions opened
   on the tasks of the collection ------------------------------------- *)
MaxIds == 2
MaxTime == 1
MaxSessions == 3

(* ---- program constants ----------------------------------------------- *)
MaxTitleLength == 200
MaxDescriptionLength == 1000
MaxCategoryLength == 50

Ids == 1..MaxIds

(* JSON null for a text field: no text holds a character named "null". *)
Null == <<"null">>
(* JSON null for timeTracking.activeSessionStart. *)
NoInstant == -1

(* ---- text ------------------------------------------------------------ *)
IsSpace(c) == c \in {" ", "\t", "\n"}

RECURSIVE TrimStart(_)
TrimStart(s) ==
  IF s # <<>> /\ IsSpace(Head(s)) THEN TrimStart(Tail(s)) ELSE s

RECURSIVE TrimEnd(_)
TrimEnd(s) ==
  IF s # <<>> /\ IsSpace(s[Len(s)]) THEN TrimEnd(SubSeq(s, 1, Len(s) - 1)) ELSE s

(* String.prototype.trim *)
Trim(s) == TrimEnd(TrimStart(s))

Has(obj, key) == key \in DOMAIN obj

(* x || d for a text value x that may be undefined, null or '' *)
TextOr(obj, key, d) ==
  IF Has(obj, key) /\ obj[key] # <<>> /\ obj[key] # Null THEN obj[key] ELSE d

(* the priority is one of a few words: a TLA+ string, '' the empty one *)
WordOr(obj, key, d) ==
  IF Has(obj, key) /\ obj[key] # "" THEN obj[key] ELSE d

(* x for a destructured query parameter x = d: only undefined takes d *)
QueryOr(obj, key, d) == IF Has(obj, key) THEN obj[key] ELSE d

(* the value of `completed` is any JSON value: the two booleans, and null,
   numbers and strings, written as JSON writes them *)
JsTrue == "true"
JsFalse == "false"
Falsy == {"false", "null", "0", "''"}

(* Boolean(x) *)
BooleanOf(x) == IF x \in Falsy THEN JsFalse ELSE JsTrue

(* new Date(text) parses these texts, and NaN for any other *)
ParseableDates == { <<"2", "0", "2", "5">>, <<"2", "0", "2", "6">> }

(* ---- the store ------------------------------------------------------- *)
NoFile == [exists |-> FALSE, valid |-> TRUE, data |-> <<>>]

(* writeTasks: the file is overwritten in full *)
WriteTasks(tasks) == [exists |-> TRUE, valid |-> TRUE, data |-> tasks]

(* a file whose content JSON.parse rejects *)
Unparseable == [exists |-> TRUE, valid |-> FALSE, data |-> <<>>]

(* a readTasks that answers unparseable content by writing the empty list *)
ReadTasksResets(f) ==
  IF ~f.exists \/ ~f.valid THEN [file |-> WriteTasks(<<>>), tasks |-> <<>>]
  ELSE [file |-> f, tasks |-> f.data]

(* readTasks: [file, tasks]; a missing file is created empty, unparseable
   content reads as the empty list and is left alone *)
ReadTasks(f) ==
  IF ~f.exists THEN [file |-> WriteTasks(<<>>), tasks |-> <<>>]
  ELSE IF ~f.valid THEN [file |-> f, tasks |-> <<>>]
  ELSE [file |-> f, tasks |-> f.data]

(* ---- the Task class (as in the sources) ------------------------------ *)
General == <<"g", "e", "n", "e", "r", "a", "l">>

(* a constructor that takes `completed` as it is stored *)
TaskKeepsCompleted(data) ==
  [ id          |-> data.id,
    title       |-> TextOr(data, "title", <<>>),
    description |-> TextOr(data, "description", <<>>),
    completed   |-> IF Has(data, "completed") THEN data.completed ELSE JsFalse,
    priority    |-> WordOr(data, "priority", "medium"),
    category    |-> TextOr(data, "category", General),
    dueDate     |-> TextOr(data, "dueDate", Null),
    createdAt   |-> data.createdAt,
    updatedAt   |-> data.updatedAt ]

(* constructor(data), for data that carries id and both timestamps *)
Task(data) ==
  [ id          |-> data.id,
    title       |-> TextOr(data, "title", <<>>),
    description |-> TextOr(data, "description", <<>>),
    completed   |-> IF Has(data, "completed") THEN BooleanOf(data.completed) ELSE JsFalse,
    priority    |-> WordOr(data, "priority", "medium"),
    category    |-> TextOr(data, "category", General),
    dueDate     |-> TextOr(data, "dueDate", Null),
    createdAt   |-> data.createdAt,
    updatedAt   |-> data.updatedAt ]

ValidPriorities == {"high", "medium", "low"}

(* a text value that JavaScript takes as false: '' and null *)
NoText(x) == x = <<>> \/ x = Null

(* a validation that lets any priority through *)
ValidateAnyPriority(t) ==
  (IF NoText(t.title) \/ Len(Trim(t.title)) = 0
     THEN <<"Title is required">> ELSE <<>>)
  \o (IF ~NoText(t.title) /\ Len(t.title) > MaxTitleLength
     THEN <<"Title must be less than 200 characters">> ELSE <<>>)
  \o (IF ~NoText(t.description) /\ Len(t.description) > MaxDescriptionLength
     THEN <<"Description must be less than 1000 characters">> ELSE <<>>)
  \o (IF ~NoText(t.category) /\ Len(t.category) > MaxCategoryLength
     THEN <<"Category must be less than 50 characters">> ELSE <<>>)
  \o (IF ~NoText(t.dueDate) /\ t.dueDate \notin ParseableDates
     THEN <<"Due date must be a valid date">> ELSE <<>>)

(* validate(): the list of error messages *)
Validate(t) ==
  (IF NoText(t.title) \/ Len(Trim(t.title)) = 0
     THEN <<"Title is required">> ELSE <<>>)
  \o (IF ~NoText(t.title) /\ Len(t.title) > MaxTitleLength
     THEN <<"Title must be less than 200 characters">> ELSE <<>>)
  \o (IF ~NoText(t.description) /\ Len(t.description) > MaxDescriptionLength
     THEN <<"Description must be less than 1000 characters">> ELSE <<>>)
  \o (IF t.priority # "" /\ t.priority \notin ValidPriorities
     THEN <<"Priority must be high, medium, or low">> ELSE <<>>)
  \o (IF ~NoText(t.category) /\ Len(t.category) > MaxCategoryLength
     THEN <<"Category must be less than 50 characters">> ELSE <<>>)
  \o (IF ~NoText(t.dueDate) /\ t.dueDate \notin ParseableDates
     THEN <<"Due date must be a valid date">> ELSE <<>>)

(* touch() *)
Touch(t, clock) == [t EXCEPT !.updatedAt = clock]

(* toJSON() *)
ToJSON(t) ==
  [ id          |-> t.id,
    title       |-> Trim(IF NoText(t.title) THEN <<>> ELSE t.title),
    description |-> Trim(IF NoText(t.description) THEN <<>> ELSE t.description),
    completed   |-> t.completed,
    priority    |-> IF t.priority = "" THEN "medium" ELSE t.priority,
    category    |-> IF NoText(t.category) THEN General ELSE t.category,
    dueDate     |-> t.dueDate,
    createdAt   |-> t.createdAt,
    updatedAt   |-> t.updatedAt ]

(* tasksData.map(taskData => new Task(taskData)) *)
TasksOf(records) == [i \in 1..Len(records) |-> Task(records[i])]

(* tasks.map(t => t.toJSON()) *)
ToJSONAll(tasks) == [i \in 1..Len(tasks) |-> ToJSON(tasks[i])]

(* the index of the first task with this id, 0 for none (findIndex) *)
FindIndex(tasks, id) ==
  IF \E i \in 1..Len(tasks) : tasks[i].id = id
    THEN CHOOSE i \in 1..Len(tasks) :
           tasks[i].id = id /\ \A j \in 1..(i - 1) : tasks[j].id # id
    ELSE 0

(* Task.findAll: [file, tasks] *)
FindAll(f) ==
  LET r == ReadTasks(f) IN [file |-> r.file, tasks |-> TasksOf(r.tasks)]

(* a findById whose comparison always succeeds: the first task is found *)
FindByIdFirst(f, id) ==
  LET r == FindAll(f)
  IN  [file |-> r.file, found |-> r.tasks # <<>>, index |-> IF r.tasks # <<>> THEN 1 ELSE 0]

(* Task.findById: [file, found, index of the task] *)
FindById(f, id) ==
  LET r == FindAll(f)
      i == FindIndex(r.tasks, id)
  IN  [file |-> r.file, found |-> i # 0, index |-> i]

(* the collection the file holds (none when it is missing or unparseable) *)
Persisted(f) == IF f.exists /\ f.valid THEN f.data ELSE <<>>

(* a create that appends and saves before it looks at the validation *)
TaskCreateSavesFirst(f, taskData, id, created, updated) ==
  LET task == Task(taskData @@ [id |-> id, createdAt |-> created, updatedAt |-> updated])
      errors == Validate(task)
      r == FindAll(f)
  IN  [ok |-> errors = <<>>, errors |-> errors,
       file |-> WriteTasks(ToJSONAll(Append(r.tasks, task))),
       task |-> task]

(* Task.create(taskData) with the identifier and the two clock readings the
   constructor takes: [ok, errors, file, task] *)
TaskCreate(f, taskData, id, created, updated) ==
  LET task == Task(taskData @@ [id |-> id, createdAt |-> created, updatedAt |-> updated])
      errors == Validate(task)
      r == FindAll(f)
  IN  IF errors # <<>>
        THEN [ok |-> FALSE, errors |-> errors, file |-> f, task |-> task]
        ELSE [ok |-> TRUE, errors |-> <<>>,
              file |-> WriteTasks(ToJSONAll(Append(r.tasks, task))),
              task |-> task]

(* the fields Task.update copies from updateData *)
ApplyUpdate(t, updateData) ==
  [t EXCEPT
     !.title = IF Has(updateData, "title") THEN updateData.title ELSE @,
     !.description = IF Has(updateData, "description") THEN updateData.description ELSE @,
     !.completed = IF Has(updateData, "completed") THEN updateData.completed ELSE @]

(* an update that validates the new values before it looks the task up *)
TaskUpdateValidatesFirst(f, id, updateData, clock) ==
  LET r == FindAll(f)
      i == FindIndex(r.tasks, id)
      probe == ApplyUpdate(Task([id |-> id, title |-> <<"t">>,
                                 createdAt |-> clock, updatedAt |-> clock]),
                           updateData)
      task == Touch(ApplyUpdate(r.tasks[i], updateData), clock)
  IN  IF Validate(probe) # <<>>
        THEN [found |-> TRUE, ok |-> FALSE, errors |-> Validate(probe),
              file |-> r.file, task |-> probe]
      ELSE IF i = 0
        THEN [found |-> FALSE, ok |-> FALSE, errors |-> <<>>, file |-> r.file]
      ELSE [found |-> TRUE, ok |-> TRUE, errors |-> <<>>,
            file |-> WriteTasks(ToJSONAll([r.tasks EXCEPT ![i] = task])),
            task |-> task]

(* Task.update(id, updateData): [found, ok, errors, file, task] *)
TaskUpdate(f, id, updateData, clock) ==
  LET r == FindAll(f)
      i == FindIndex(r.tasks, id)
  IN  IF i = 0
        THEN [found |-> FALSE, ok |-> FALSE, errors |-> <<>>, file |-> r.file]
        ELSE LET task == Touch(ApplyUpdate(r.tasks[i], updateData), clock)
                 errors == Validate(task)
             IN  IF errors # <<>>
                   THEN [found |-> TRUE, ok |-> FALSE, errors |-> errors,
                         file |-> r.file, task |-> task]
                   ELSE [found |-> TRUE, ok |-> TRUE, errors |-> <<>>,
                         file |-> WriteTasks(ToJSONAll([r.tasks EXCEPT ![i] = task])),
                         task |-> task]

(* splice(i, 1) *)
RemoveAt(s, i) == SubSeq(s, 1, i - 1) \o SubSeq(s, i + 1, Len(s))

(* Task.delete(id): [deleted, file] *)
TaskDelete(f, id) ==
  LET r == FindAll(f)
      i == FindIndex(r.tasks, id)
  IN  IF i = 0
        THEN [deleted |-> FALSE, file |-> r.file]
        ELSE [deleted |-> TRUE, file |-> WriteTasks(ToJSONAll(RemoveAt(r.tasks, i)))]

(* the sub-sequence of s at the indices in keep, in order *)
RECURSIVE SelectAt(_, _, _)
SelectAt(s, keep, i) ==
  IF i > Len(s) THEN <<>>
  ELSE (IF i \in keep THEN <<s[i]>> ELSE <<>>) \o SelectAt(s, keep, i + 1)

(* Task.findByStatus(completed): [file, tasks] *)
FindByStatus(f, completed) ==
  LET r == FindAll(f)
      keep == {i \in 1..Len(r.tasks) : r.tasks[i].completed = completed}
  IN  [file |-> r.file, tasks |-> SelectAt(r.tasks, keep, 1)]

(* statistics whose rate divides by the total also when it is 0 *)
GetStatisticsUnguarded(f) ==
  LET r == FindAll(f)
      completed == Cardinality({i \in 1..Len(r.tasks) : r.tasks[i].completed = JsTrue})
  IN  [file |-> r.file,
       stats |-> [total |-> Len(r.tasks),
                  completed |-> completed,
                  active |-> Len(r.tasks) - completed,
                  completionRate |-> [num |-> completed * 100, den |-> Len(r.tasks)]]]

(* Task.getStatistics: [file, stats]; the rate is the exact quotient num/den *)
GetStatistics(f) ==
  LET r == FindAll(f)
      completed == Cardinality({i \in 1..Len(r.tasks) : r.tasks[i].completed = JsTrue})
  IN  [file |-> r.file,
       stats |-> [total |-> Len(r.tasks),
                  completed |-> completed,
                  active |-> Len(r.tasks) - completed,
                  completionRate |->
                    IF Len(r.tasks) > 0
                      THEN [num |-> completed * 100, den |-> Len(r.tasks)]
                      ELSE [num |-> 0, den |-> 1]]]

(* ---- the listing (GET /api/tasks) ------------------------------------ *)
UpperCase ==
  <<"A", "B", "C", "D", "E", "F", "G", "H", "I", "J", "K", "L", "M",
    "N", "O", "P", "Q", "R", "S", "T", "U", "V", "W", "X", "Y", "Z">>
LowerCase ==
  <<"a", "b", "c", "d", "e", "f", "g", "h", "i", "j", "k", "l", "m",
    "n", "o", "p", "q", "r", "s", "t", "u", "v", "w", "x", "y", "z">>

(* String.prototype.toLowerCase *)
ToLowerCase(s) ==
  [i \in 1..Len(s) |->
     IF \E k \in 1..Len(UpperCase) : UpperCase[k] = s[i]
       THEN LowerCase[CHOOSE k \in 1..Len(UpperCase) : UpperCase[k] = s[i]]
       ELSE s[i]]

(* String.prototype.includes *)
Includes(s, q) ==
  \E i \in 0..(Len(s) - Len(q)) : SubSeq(s, i + 1, i + Len(q)) = q

All == <<"a", "l", "l">>

(* a search predicate that looks at the title alone *)
SearchMatchTitleOnly(task, searchQuery) ==
  Includes(ToLowerCase(task.title), searchQuery)

(* the search filter's predicate on one task *)
SearchMatch(task, searchQuery) ==
  \/ Includes(ToLowerCase(task.title), searchQuery)
  \/ ~NoText(task.description) /\ Includes(ToLowerCase(task.description), searchQuery)
  \/ ~NoText(task.category) /\ Includes(ToLowerCase(task.category), searchQuery)

(* priorityOrder[p] || 2, and getPriorityWeight() *)
GetPriorityWeight(priority) ==
  CASE priority = "high" -> 3
    [] priority = "medium" -> 2
    [] priority = "low" -> 1
    [] OTHER -> 2

(* a comparator that puts the oldest first within a priority *)
CompareOldestFirst(a, b) ==
  IF GetPriorityWeight(a.priority) # GetPriorityWeight(b.priority)
    THEN GetPriorityWeight(b.priority) - GetPriorityWeight(a.priority)
    ELSE a.createdAt - b.createdAt

(* the comparator handed to sort: negative when a comes first *)
Compare(a, b) ==
  IF GetPriorityWeight(a.priority) # GetPriorityWeight(b.priority)
    THEN GetPriorityWeight(b.priority) - GetPriorityWeight(a.priority)
    ELSE b.createdAt - a.createdAt

(* x put into the sorted s after every element that does not come after it *)
RECURSIVE Insert(_, _)
Insert(s, x) ==
  IF s = <<>> THEN <<x>>
  ELSE IF Compare(Head(s), x) <= 0 THEN <<Head(s)>> \o Insert(Tail(s), x)
  ELSE <<x>> \o s

(* Array.prototype.sort with that comparator: the sort is stable *)
RECURSIVE Sort(_)
Sort(s) ==
  IF s = <<>> THEN <<>> ELSE Insert(Sort(SubSeq(s, 1, Len(s) - 1)), s[Len(s)])

(* the tasks of s that satisfy keep, in order *)
Filter(s, keep) == SelectAt(s, {i \in 1..Len(s) : keep[i]}, 1)

(* a listing whose category filter is the `else` of the priority filter *)
GetTasksElseIf(f, query) ==
  LET status == QueryOr(query, "status", "all")
      priority == QueryOr(query, "priority", "all")
      category == QueryOr(query, "category", All)
      r == IF status = "active" THEN FindByStatus(f, JsFalse)
           ELSE IF status = "completed" THEN FindByStatus(f, JsTrue)
           ELSE FindAll(f)
      searched ==
        IF Has(query, "search") /\ Trim(query.search) # <<>>
          THEN Filter(r.tasks,
                 [i \in 1..Len(r.tasks) |->
                    SearchMatch(r.tasks[i], Trim(ToLowerCase(query.search)))])
          ELSE r.tasks
      byPriority ==
        IF priority # "all"
          THEN Filter(searched, [i \in 1..Len(searched) |-> searched[i].priority = priority])
          ELSE searched
      byCategory ==
        IF priority = "all" /\ category # All
          THEN Filter(byPriority, [i \in 1..Len(byPriority) |-> byPriority[i].category = category])
          ELSE byPriority
  IN  [file |-> r.file, tasks |-> Sort(byCategory)]

(* GET /: the handler's result for a query: [file, tasks] *)
GetTasks(f, query) ==
  LET status == QueryOr(query, "status", "all")
      priority == QueryOr(query, "priority", "all")
      category == QueryOr(query, "category", All)
      r == IF status = "active" THEN FindByStatus(f, JsFalse)
           ELSE IF status = "completed" THEN FindByStatus(f, JsTrue)
           ELSE FindAll(f)
      searched ==
        IF Has(query, "search") /\ Trim(query.search) # <<>>
          THEN Filter(r.tasks,
                 [i \in 1..Len(r.tasks) |->
                    SearchMatch(r.tasks[i], Trim(ToLowerCase(query.search)))])
          ELSE r.tasks
      byPriority ==
        IF priority # "all"
          THEN Filter(searched, [i \in 1..Len(searched) |-> searched[i].priority = priority])
          ELSE searched
      byCategory ==
        IF category # All
          THEN Filter(byPriority, [i \in 1..Len(byPriority) |-> byPriority[i].category = category])
          ELSE byPriority
  IN  [file |-> r.file, tasks |-> Sort(byCategory)]

(* ---- time tracking (modelled from the specification) ----------------- *)
DefaultTimeTracking ==
  [isActive |-> FALSE, activeSessionStart |-> NoInstant, sessions |-> <<>>, totalTime |-> 0]

(* the timeTracking sub-record of a stored record, defaulted when absent *)
TimeTrackingOf(data) ==
  IF Has(data, "timeTracking") THEN data.timeTracking ELSE DefaultTimeTracking

(* a task built from a stored record, its timeTracking included *)
TrackedTask(data) == Task(data) @@ [timeTracking |-> TimeTrackingOf(data)]

(* the stored form of such a task *)
Serialize(t) == ToJSON(t) @@ [timeTracking |-> t.timeTracking]

(* a stored form of the collection with the last task first *)
SerializeAllReversed(tasks) ==
  [i \in 1..Len(tasks) |-> Serialize(tasks[Len(tasks) + 1 - i])]

(* the stored form of a collection of such tasks *)
SerializeAll(tasks) == [i \in 1..Len(tasks) |-> Serialize(tasks[i])]

(* the collection as the timer operations load it: [file, tasks] *)
LoadTracked(f) ==
  LET r == ReadTasks(f) IN [file |-> r.file, tasks |-> [i \in 1..Len(r.tasks) |-> TrackedTask(r.tasks[i])]]

(* a stop that records the session and forgets to add it to totalTime *)
StopSessionKeepsTotal(t, clock) ==
  LET tt == t.timeTracking
  IN  [t EXCEPT
         !.timeTracking =
            [isActive |-> FALSE,
             activeSessionStart |-> NoInstant,
             sessions |-> Append(tt.sessions,
                            [start |-> tt.activeSessionStart, end |-> clock,
                             duration |-> clock - tt.activeSessionStart]),
             totalTime |-> tt.totalTime],
         !.updatedAt = clock]

(* RUNNING -> IDLE: the open session is finalized *)
StopSession(t, clock) ==
  LET tt == t.timeTracking
      duration == clock - tt.activeSessionStart
  IN  [t EXCEPT
         !.timeTracking =
            [isActive |-> FALSE,
             activeSessionStart |-> NoInstant,
             sessions |-> Append(tt.sessions,
                            [start |-> tt.activeSessionStart, end |-> clock,
                             duration |-> duration]),
             totalTime |-> tt.totalTime + duration],
         !.updatedAt = clock]

(* a start that marks the task active and records no start instant *)
StartSessionUnstamped(t, clock) ==
  [t EXCEPT
     !.timeTracking = [@ EXCEPT !.isActive = TRUE],
     !.updatedAt = clock]

(* IDLE -> RUNNING *)
StartSession(t, clock) ==
  [t EXCEPT
     !.timeTracking = [@ EXCEPT !.isActive = TRUE, !.activeSessionStart = clock],
     !.updatedAt = clock]

AlreadyActive == "Time tracking is already active for this task"
NoActiveSession == "No active time tracking session for this task"
TaskNotFound == "Task not found"

(* a start that leaves the other running tasks running *)
StartTimeTrackingKeepsOthers(f, i, clock) ==
  LET r == LoadTracked(f)
      target == r.tasks[i]
  IN  IF target.timeTracking.isActive
        THEN [ok |-> FALSE, error |-> AlreadyActive, file |-> r.file, task |-> target]
        ELSE [ok |-> TRUE, error |-> "",
              file |-> WriteTasks(SerializeAll([r.tasks EXCEPT ![i] = StartSession(target, clock)])),
              task |-> StartSession(target, clock)]

(* startTimeTracking on the task at index i: [ok, error, file, task] *)
StartTimeTracking(f, i, clock) ==
  LET r == LoadTracked(f)
      target == r.tasks[i]
  IN  IF target.timeTracking.isActive
        THEN [ok |-> FALSE, error |-> AlreadyActive, file |-> r.file, task |-> target]
        ELSE LET stopped == [j \in 1..Len(r.tasks) |->
                               IF j # i /\ r.tasks[j].timeTracking.isActive
                                 THEN StopSession(r.tasks[j], clock)
                                 ELSE r.tasks[j]]
                 started == StartSession(target, clock)
             IN  [ok |-> TRUE, error |-> "",
                  file |-> WriteTasks(SerializeAll([stopped EXCEPT ![i] = started])),
                  task |-> started]

(* a stop that answers with the stopped task and never saves it *)
StopTimeTrackingUnsaved(f, i, clock) ==
  LET r == LoadTracked(f)
      target == r.tasks[i]
  IN  IF ~target.timeTracking.isActive
        THEN [ok |-> FALSE, error |-> NoActiveSession, file |-> r.file, task |-> target]
        ELSE [ok |-> TRUE, error |-> "", file |-> r.file,
              task |-> StopSession(target, clock)]

(* stopTimeTracking on the task at index i: [ok, error, file, task] *)
StopTimeTracking(f, i, clock) ==
  LET r == LoadTracked(f)
      target == r.tasks[i]
  IN  IF ~target.timeTracking.isActive
        THEN [ok |-> FALSE, error |-> NoActiveSession, file |-> r.file, task |-> target]
        ELSE LET stopped == StopSession(target, clock)
             IN  [ok |-> TRUE, error |-> "",
                  file |-> WriteTasks(SerializeAll([r.tasks EXCEPT ![i] = stopped])),
                  task |-> stopped]

(* a stop-all that reports every task of the collection *)
StopAllReportsEveryTask(f, clock) ==
  LET r == LoadTracked(f)
      running == {j \in 1..Len(r.tasks) : r.tasks[j].timeTracking.isActive}
      after == [j \in 1..Len(r.tasks) |->
                  IF j \in running THEN StopSession(r.tasks[j], clock) ELSE r.tasks[j]]
  IN  [file |-> IF running = {} THEN r.file ELSE WriteTasks(SerializeAll(after)),
       stopped |-> after]

(* stopAllActiveTimers: [file, stopped] *)
StopAllActiveTimers(f, clock) ==
  LET r == LoadTracked(f)
      running == {j \in 1..Len(r.tasks) : r.tasks[j].timeTracking.isActive}
      after == [j \in 1..Len(r.tasks) |->
                  IF j \in running THEN StopSession(r.tasks[j], clock) ELSE r.tasks[j]]
  IN  [file |-> IF running = {} THEN r.file ELSE WriteTasks(SerializeAll(after)),
       stopped |-> SelectAt(after, running, 1)]

RECURSIVE SumTotalTime(_)
SumTotalTime(tasks) ==
  IF tasks = <<>> THEN 0
  ELSE Head(tasks).timeTracking.totalTime + SumTotalTime(Tail(tasks))

RECURSIVE SumSessions(_)
SumSessions(tasks) ==
  IF tasks = <<>> THEN 0
  ELSE Len(Head(tasks).timeTracking.sessions) + SumSessions(Tail(tasks))

(* statistics that count the tasks with a session, not those with time *)
GetTimeTrackingStatsBySessions(f) ==
  LET r == LoadTracked(f)
      total == SumTotalTime(r.tasks)
      sessions == SumSessions(r.tasks)
  IN  [file |-> r.file,
       stats |->
         [totalTimeTracked |-> total,
          tasksWithTimeCount |->
            Cardinality({j \in 1..Len(r.tasks) :
                           r.tasks[j].timeTracking.sessions # <<>>}),
          totalSessions |-> sessions,
          averageSessionDuration |->
            IF sessions > 0 THEN [num |-> total, den |-> sessions]
                            ELSE [num |-> 0, den |-> 1]]]

(* getTimeTrackingStats; the average is the exact quotient num/den *)
GetTimeTrackingStats(f) ==
  LET r == LoadTracked(f)
      total == SumTotalTime(r.tasks)
      sessions == SumSessions(r.tasks)
  IN  [file |-> r.file,
       stats |->
         [totalTimeTracked |-> total,
          tasksWithTimeCount |->
            Cardinality({j \in 1..Len(r.tasks) : r.tasks[j].timeTracking.totalTime > 0}),
          totalSessions |-> sessions,
          averageSessionDuration |->
            IF sessions > 0 THEN [num |-> total, den |-> sessions]
                            ELSE [num |-> 0, den |-> 1]]]

(* ---- requests --------------------------------------------------------- *)
CreateBodies ==
  { [title |-> <<"a">>],
    [description |-> <<"d">>] }

UpdateBodies ==
  { [title |-> <<"c">>],
    [title |-> <<" ">>] }

(* POST /: the object the handler hands to Task.create *)
CreateData(body) ==
  [ priority |-> WordOr(body, "priority", "medium"),
    category |-> TextOr(body, "category", General) ]
  @@ [k \in DOMAIN body \cap {"title", "description", "dueDate"} |-> body[k]]

(* PUT /:id: the keys of the body the handler copies into updateData *)
UpdateData(body) ==
  [k \in DOMAIN body \cap
         {"title", "description", "completed", "priority", "category", "dueDate"}
     |-> body[k]]

(* an identifier that uuidv4() never hands out *)
MissingId == 0

(* n copies of the character c *)
Repeat(c, n) == [i \in 1..n |-> c]

Year2025 == <<"2", "0", "2", "5">>

(* request bodies that satisfy every rule of the Task entity *)
ValidCreateBodies ==
  { [title |-> <<"a">>],
    [title |-> <<" ", "b", " ">>, description |-> <<"d">>, priority |-> "low",
     category |-> <<"w">>, dueDate |-> Year2025] }

(* request bodies that break one rule, and one that breaks two *)
InvalidCreateBodies ==
  { [description |-> <<"d">>],
    [title |-> <<>>],
    [title |-> <<" ">>],
    [title |-> Repeat("a", MaxTitleLength + 1)],
    [title |-> <<"a">>, description |-> Repeat("d", MaxDescriptionLength + 1)],
    [title |-> <<"a">>, priority |-> "invalid"],
    [title |-> <<"a">>, category |-> Repeat("c", MaxCategoryLength + 1)],
    [title |-> <<"a">>, dueDate |-> <<"x">>],
    [title |-> <<>>, priority |-> "invalid"] }

(* update partials: empty, valid ones for each kind of field, invalid ones *)
PartialBodies ==
  { <<>>,
    [title |-> <<"c">>],
    [title |-> <<>>],
    [completed |-> JsTrue],
    [priority |-> "high"],
    [priority |-> "invalid"],
    [category |-> <<"w">>],
    [dueDate |-> Null],
    [dueDate |-> <<"x">>] }

(* update partials that set `completed`: a boolean, a string, null *)
CompletedBodies ==
  { [completed |-> JsTrue], [completed |-> JsFalse],
    [completed |-> "'yes'"], [completed |-> "null"] }

(* listing queries: none, each filter alone, and all of them together *)
Queries ==
  { <<>>,
    [status |-> "active"],
    [status |-> "completed"],
    [priority |-> "high"],
    [category |-> General],
    [search |-> <<" ", "A">>],
    [status |-> "active", priority |-> "low", category |-> General,
     search |-> <<"a">>] }

(* bodies whose title, description or category holds the letters x and y in
   either case *)
SearchableBodies ==
  { [title |-> <<"X", "y">>],
    [title |-> <<"c">>, description |-> <<"x", "Y">>],
    [title |-> <<"c", " ", "k">>, category |-> <<"Y", "x">>],
    [title |-> <<"c">>, priority |-> "high"] }

(* search strings: matching in either case, padded, blank, empty, matching
   nothing; alone and with another filter *)
SearchQueries ==
  { <<>>,
    [search |-> <<"X", "Y">>],
    [search |-> <<" ", "x", " ">>],
    [search |-> <<"Y", "x">>],
    [search |-> <<" ", "k">>],
    [search |-> <<" ", " ">>],
    [search |-> <<>>],
    [search |-> <<"z">>],
    [search |-> <<"C">>, priority |-> "high"],
    [search |-> <<" ">>, priority |-> "high"] }

(* request bodies at the limits of the rules, and one past each *)
LimitBodies ==
  { [title |-> Repeat("a", MaxTitleLength),
     description |-> Repeat("d", MaxDescriptionLength),
     category |-> Repeat("c", MaxCategoryLength), priority |-> "low"],
    [title |-> <<" ", "b", " ">>, priority |-> "invalid"],
    [title |-> <<"a">>, category |-> Repeat("c", MaxCategoryLength + 1)] }

(* update partials at the limits of the rules, and one past each *)
LimitPartials ==
  { [title |-> <<"c">>, description |-> Null],
    [title |-> Repeat("a", MaxTitleLength + 1)],
    [title |-> <<" ">>, description |-> Repeat("d", MaxDescriptionLength + 1)] }

(* the data of the tasks handed to validate(): every rule kept, broken,
   and at its limit with and without padding *)
ValidatedData ==
  { [title |-> title, description |-> description, priority |-> priority,
     category |-> category, dueDate |-> dueDate] :
      title \in {<<>>, <<" ">>, <<"a">>, Repeat("a", MaxTitleLength),
                 Repeat("a", MaxTitleLength + 1),
                 Repeat("a", MaxTitleLength) \o <<" ">>},
      description \in {<<>>, Repeat("d", MaxDescriptionLength),
                       Repeat("d", MaxDescriptionLength + 1),
                       <<" ">> \o Repeat("d", MaxDescriptionLength)},
      priority \in {"high", "invalid"},
      category \in {<<"w">>, Repeat("c", MaxCategoryLength + 1)},
      dueDate \in {Null, Year2025, <<"x">>} }

(* tasks that differ in priority, category and title, and queries that
   combine the four filters, with values that filter nothing *)
FilterBodies ==
  { [title |-> <<"x">>, priority |-> "high", category |-> <<"w">>],
    [title |-> <<"y">>, priority |-> "high"],
    [title |-> <<"x">>, priority |-> "low", category |-> <<"w">>] }

FilterQueries ==
  { [status |-> "all", priority |-> "all", category |-> All],
    [status |-> "pending"],
    [status |-> "active", priority |-> "high"],
    [status |-> "completed", category |-> <<"w">>],
    [priority |-> "high", category |-> <<"w">>],
    [search |-> <<"x">>, priority |-> "high"],
    [search |-> <<"x">>, category |-> <<"w">>, status |-> "active"],
    [status |-> "active", priority |-> "high", category |-> <<"w">>,
     search |-> <<"x">>],
    [status |-> "completed", priority |-> "low", category |-> General,
     search |-> <<" ">>] }

(* the sessions opened on the tasks of the collection, the running one included *)
Opened ==
  SumSessions(LoadTracked(tasksFile).tasks)
  + Cardinality({i \in 1..Len(Persisted(tasksFile)) :
                   TimeTrackingOf(Persisted(tasksFile)[i]).isActive})

(* the handlers are async functions: a request is suspended at each await,
   and meanwhile the event loop runs the handler of another request *)
Slots == {"first", "second"}

Idle == [pc |-> "idle"]

Init ==
  /\ tasksFile = NoFile
  /\ now = 0
  /\ nextId = 1
  /\ before = <<>>
  /\ resp = [op |-> "none", status |-> 0]
  /\ inflight = [s \in Slots |-> Idle]

(* the clock moves on between requests *)
Tick ==
  /\ now < MaxTime
  /\ now' = now + 1
  /\ UNCHANGED <<tasksFile, nextId, before, resp, inflight>>

(* POST /api/tasks; the constructor reads the clock twice *)
Create(body, late) ==
  /\ nextId <= MaxIds
  /\ now + late <= MaxTime
  /\ \E r \in {TaskCreate(tasksFile, CreateData(body), nextId, now, now + late)} :
         /\ tasksFile' = r.file
         /\ nextId' = IF r.ok THEN nextId + 1 ELSE nextId
         /\ resp' = IF r.ok
                      THEN [op |-> "create", status |-> 201, body |-> body,
                            data |-> ToJSON(r.task)]
                      ELSE [op |-> "create", status |-> 400, body |-> body,
                            error |-> "Validation failed", details |-> r.errors]
  /\ now' = now + late
  /\ before' = Persisted(tasksFile)
  /\ UNCHANGED inflight

(* PUT /api/tasks/:id *)
Update(id, body) ==
  /\ \E r \in {TaskUpdate(tasksFile, id, UpdateData(body), now)} :
         /\ tasksFile' = r.file
         /\ resp' = IF ~r.found
                      THEN [op |-> "update", id |-> id, status |-> 404, body |-> body,
                            error |-> TaskNotFound]
                    ELSE IF ~r.ok
                      THEN [op |-> "update", id |-> id, status |-> 400, body |-> body,
                            error |-> "Validation failed", details |-> r.errors]
                    ELSE [op |-> "update", id |-> id, status |-> 200, body |-> body,
                          data |-> ToJSON(r.task)]
  /\ before' = Persisted(tasksFile)
  /\ UNCHANGED <<now, nextId, inflight>>

(* DELETE /api/tasks/:id *)
Delete(id) ==
  /\ \E r \in {TaskDelete(tasksFile, id)} :
         /\ tasksFile' = r.file
         /\ resp' = IF r.deleted
                      THEN [op |-> "delete", id |-> id, status |-> 200]
                      ELSE [op |-> "delete", id |-> id, status |-> 404,
                            error |-> TaskNotFound]
  /\ before' = Persisted(tasksFile)
  /\ UNCHANGED <<now, nextId, inflight>>

(* a start handler whose catch block answers with its fallback text only *)
TimerStartFallbackError(id) ==
  /\ \E found \in {FindById(tasksFile, id)} :
         IF ~found.found
           THEN /\ tasksFile' = found.file
                /\ resp' = [op |-> "timerStart", id |-> id, status |-> 404,
                            error |-> TaskNotFound]
           ELSE \E r \in {StartTimeTracking(found.file, found.index, now)} :
                    /\ r.ok => Opened < MaxSessions
                    /\ tasksFile' = r.file
                    /\ resp' = IF r.ok
                                 THEN [op |-> "timerStart", id |-> id, status |-> 200,
                                       task |-> Serialize(r.task)]
                                 ELSE [op |-> "timerStart", id |-> id, status |-> 400,
                                       error |-> "Failed to start time tracking"]
  /\ before' = Persisted(tasksFile)
  /\ UNCHANGED <<now, nextId, inflight>>

(* POST /api/tasks/:id/timer/start *)
TimerStart(id) ==
  /\ \E found \in {FindById(tasksFile, id)} :
         IF ~found.found
           THEN /\ tasksFile' = found.file
                /\ resp' = [op |-> "timerStart", id |-> id, status |-> 404,
                            error |-> TaskNotFound]
           ELSE \E r \in {StartTimeTracking(found.file, found.index, now)} :
                    /\ r.ok => Opened < MaxSessions
                    /\ tasksFile' = r.file
                    /\ resp' = IF r.ok
                                 THEN [op |-> "timerStart", id |-> id, status |-> 200,
                                       task |-> Serialize(r.task)]
                                 ELSE [op |-> "timerStart", id |-> id, status |-> 400,
                                       error |-> r.error]
  /\ before' = Persisted(tasksFile)
  /\ UNCHANGED <<now, nextId, inflight>>

(* a stop handler with no catch block of its own: the conflict is answered
   by the server's error handler *)
TimerStopUncaught(id) ==
  /\ \E found \in {FindById(tasksFile, id)} :
         IF ~found.found
           THEN /\ tasksFile' = found.file
                /\ resp' = [op |-> "timerStop", id |-> id, status |-> 404,
                            error |-> TaskNotFound]
           ELSE \E r \in {StopTimeTracking(found.file, found.index, now)} :
                    /\ tasksFile' = r.file
                    /\ resp' = IF r.ok
                                 THEN [op |-> "timerStop", id |-> id, status |-> 200,
                                       task |-> Serialize(r.task)]
                                 ELSE [op |-> "timerStop", id |-> id, status |-> 500,
                                       error |-> "Internal server error"]
  /\ before' = Persisted(tasksFile)
  /\ UNCHANGED <<now, nextId, inflight>>

(* POST /api/tasks/:id/timer/stop *)
TimerStop(id) ==
  /\ \E found \in {FindById(tasksFile, id)} :
         IF ~found.found
           THEN /\ tasksFile' = found.file
                /\ resp' = [op |-> "timerStop", id |-> id, status |-> 404,
                            error |-> TaskNotFound]
           ELSE \E r \in {StopTimeTracking(found.file, found.index, now)} :
                    /\ tasksFile' = r.file
                    /\ resp' = IF r.ok
                                 THEN [op |-> "timerStop", id |-> id, status |-> 200,
                                       task |-> Serialize(r.task)]
                                 ELSE [op |-> "timerStop", id |-> id, status |-> 400,
                                       error |-> r.error]
  /\ before' = Persisted(tasksFile)
  /\ UNCHANGED <<now, nextId, inflight>>

(* POST /api/tasks/timer/stop-all *)
TimerStopAll ==
  /\ \E r \in {StopAllActiveTimers(tasksFile, now)} :
         /\ tasksFile' = r.file
         /\ resp' = [op |-> "timerStopAll", status |-> 200,
                     stoppedTasks |-> [j \in 1..Len(r.stopped) |->
                                         [id |-> r.stopped[j].id,
                                          title |-> r.stopped[j].title]]]
  /\ before' = Persisted(tasksFile)
  /\ UNCHANGED <<now, nextId, inflight>>

(* GET /api/tasks/timer/stats *)
TimerStats ==
  /\ \E r \in {GetTimeTrackingStats(tasksFile)} :
         /\ tasksFile' = r.file
         /\ resp' = [op |-> "timerStats", status |-> 200, stats |-> r.stats]
  /\ before' = Persisted(tasksFile)
  /\ UNCHANGED <<now, nextId, inflight>>

Next ==
  \/ Tick
  \/ \E body \in CreateBodies : Create(body, 0)
  \/ \E id \in Ids, body \in UpdateBodies : Update(id, body)
  \/ \E id \in Ids : Delete(id)
  \/ \E id \in Ids : TimerStart(id)
  \/ \E id \in Ids : TimerStop(id)
  \/ TimerStopAll
  \/ TimerStats

Spec == Init /\ [][Next]_vars

(* the timer requests alone, on tasks created with a valid body *)
NextTimer ==
  \/ Tick
  \/ \E body \in {b \in CreateBodies : Has(b, "title")} : Create(body, 0)
  \/ \E id \in Ids : TimerStart(id)
  \/ \E id \in Ids : TimerStop(id)
  \/ TimerStopAll
  \/ TimerStats

SpecTimer == Init /\ [][NextTimer]_vars

(* GET /api/tasks *)
List(query) ==
  /\ \E r \in {GetTasks(tasksFile, query)} :
         /\ tasksFile' = r.file
         /\ resp' = [op |-> "list", status |-> 200, query |-> query,
                     data |-> ToJSONAll(r.tasks)]
  /\ before' = Persisted(tasksFile)
  /\ UNCHANGED <<now, nextId, inflight>>

(* creation alone, with valid and invalid bodies; the clock may move between
   the constructor's two readings *)
NextCreate ==
  \/ Tick
  \/ \E body \in ValidCreateBodies \cup InvalidCreateBodies, late \in 0..1 :
       Create(body, late)

SpecCreate == Init /\ [][NextCreate]_vars

(* updates of tasks created low-priority with a due date, on ids that are
   in the collection and on ids that are not *)
NextUpdate ==
  \/ Tick
  \/ Create([title |-> <<"a">>, priority |-> "low", dueDate |-> Year2025], 0)
  \/ \E id \in Ids \cup {MissingId}, body \in PartialBodies : Update(id, body)

SpecUpdate == Init /\ [][NextUpdate]_vars

(* updates of the title alone, valid, empty and absent, on ids that are in
   the collection and on ids that are not *)
TitleBodies == { <<>>, [title |-> <<"c">>], [title |-> <<>>] }

NextUpdateTitle ==
  \/ Tick
  \/ Create([title |-> <<"a">>], 0)
  \/ \E id \in Ids \cup {MissingId}, body \in TitleBodies : Update(id, body)

SpecUpdateTitle == Init /\ [][NextUpdateTitle]_vars

(* the completion flag set to any JSON value, and the listing by status *)
NextStatus ==
  \/ Create([title |-> <<"a">>], 0)
  \/ \E id \in Ids, body \in CompletedBodies : Update(id, body)
  \/ \E status \in {"all", "active", "completed"} : List([status |-> status])

SpecStatus == Init /\ [][NextStatus]_vars

(* tasks of every priority created at different instants, completed or not,
   and the listing under each query *)
NextList ==
  \/ Tick
  \/ \E priority \in ValidPriorities : Create([title |-> <<"a">>, priority |-> priority], 0)
  \/ \E id \in Ids : Update(id, [completed |-> JsTrue])
  \/ \E query \in Queries : List(query)

SpecList == Init /\ [][NextList]_vars

(* the listing with a search string, over tasks that differ in the text of
   their title, description and category *)
NextSearch ==
  \/ \E body \in SearchableBodies : Create(body, 0)
  \/ \E query \in SearchQueries : List(query)

SpecSearch == Init /\ [][NextSearch]_vars

(* GET /api/tasks/stats *)
Stats ==
  /\ \E r \in {GetStatistics(tasksFile)} :
         /\ tasksFile' = r.file
         /\ resp' = [op |-> "stats", status |-> 200, data |-> r.stats]
  /\ before' = Persisted(tasksFile)
  /\ UNCHANGED <<now, nextId, inflight>>

(* the statistics of collections whose tasks are completed, reopened or
   deleted between two readings *)
NextStats ==
  \/ Create([title |-> <<"a">>], 0)
  \/ \E id \in Ids, body \in CompletedBodies : Update(id, body)
  \/ \E id \in Ids : Delete(id)
  \/ Stats

SpecStats == Init /\ [][NextStats]_vars

(* readTasks() called on its own *)
Load ==
  /\ \E r \in {ReadTasks(tasksFile)} :
         /\ tasksFile' = r.file
         /\ resp' = [op |-> "load", status |-> 0, file |-> tasksFile, tasks |-> r.tasks]
  /\ before' = Persisted(tasksFile)
  /\ UNCHANGED <<now, nextId, inflight>>

(* the file is overwritten from outside with text that is not JSON *)
Corrupt ==
  /\ tasksFile' = Unparseable
  /\ resp' = [op |-> "corrupt", status |-> 0]
  /\ before' = Persisted(tasksFile)
  /\ UNCHANGED <<now, nextId, inflight>>

(* the file is removed from outside *)
Remove ==
  /\ tasksFile.exists
  /\ tasksFile' = NoFile
  /\ resp' = [op |-> "remove", status |-> 0]
  /\ before' = Persisted(tasksFile)
  /\ UNCHANGED <<now, nextId, inflight>>

(* the store read while the file is present, missing or unparseable *)
NextStore ==
  \/ Tick
  \/ Create([title |-> <<"a">>], 0)
  \/ \E id \in Ids : Delete(id)
  \/ Load
  \/ Corrupt
  \/ Remove

SpecStore == Init /\ [][NextStore]_vars

(* creations, updates and deletions with values at the limits of the rules *)
NextRules ==
  \/ Tick
  \/ \E body \in LimitBodies : Create(body, 0)
  \/ \E id \in Ids, body \in LimitPartials : Update(id, body)
  \/ \E id \in Ids : Delete(id)

SpecRules == Init /\ [][NextRules]_vars

(* new Task(data).validate() *)
Validates(data) ==
  /\ \E task \in {Task(data @@ [id |-> nextId, createdAt |-> now, updatedAt |-> now])} :
         resp' = [op |-> "validate", task |-> task, errors |-> Validate(task)]
  /\ UNCHANGED <<tasksFile, now, nextId, before, inflight>>

NextValidate == \E data \in ValidatedData : Validates(data)

SpecValidate == Init /\ [][NextValidate]_vars

(* timer starts and stops on a collection whose first task differs from the
   later ones in every plain field *)
NextTimerFrame ==
  \/ Tick
  \/ \E body \in ValidCreateBodies : (nextId = 1 <=> ~Has(body, "description"))
                                       /\ Create(body, 0)
  \/ \E id \in Ids : TimerStart(id)
  \/ \E id \in Ids : TimerStop(id)

SpecTimerFrame == Init /\ [][NextTimerFrame]_vars

(* listings that combine the filters *)
NextFilter ==
  \/ \E body \in FilterBodies : Create(body, 0)
  \/ \E id \in Ids : Update(id, [completed |-> JsTrue])
  \/ \E query \in FilterQueries : List(query)

SpecFilter == Init /\ [][NextFilter]_vars

(* ---- requests in flight ----------------------------------------------
   Task.create and Task.update await the read of the file and later await
   the write; the timer-start handler awaits findById and then the start.
   Each request is a load step and a save step, and the steps of two
   requests run in any order. *)
Suspended(s) == inflight[s].pc = "loaded"

(* POST /api/tasks up to `await Task.findAll()`: the task is constructed and
   validated, the file is read *)
BeginCreate(s, body) ==
  /\ ~Suspended(s)
  /\ nextId <= MaxIds
  /\ \E r \in {TaskCreate(tasksFile, CreateData(body), nextId, now, now)} :
         IF ~r.ok
           THEN /\ resp' = [op |-> "create", status |-> 400, body |-> body,
                            error |-> "Validation failed", details |-> r.errors]
                /\ before' = Persisted(tasksFile)
                /\ UNCHANGED <<tasksFile, nextId, inflight>>
           ELSE /\ tasksFile' = FindAll(tasksFile).file
                /\ nextId' = nextId + 1
                /\ inflight' = [inflight EXCEPT ![s] =
                                  [pc |-> "loaded", op |-> "create", body |-> body,
                                   id |-> nextId, at |-> now,
                                   file |-> FindAll(tasksFile).file]]
                /\ UNCHANGED <<before, resp>>
  /\ UNCHANGED now

(* POST /api/tasks from `tasks.push(task)` on: the tasks read earlier and the
   new one are written *)
EndCreate(s) ==
  /\ Suspended(s)
  /\ inflight[s].op = "create"
  /\ \E r \in {TaskCreate(inflight[s].file, CreateData(inflight[s].body),
                          inflight[s].id, inflight[s].at, inflight[s].at)} :
         /\ tasksFile' = r.file
         /\ resp' = [op |-> "create", status |-> 201, body |-> inflight[s].body,
                     data |-> ToJSON(r.task)]
  /\ before' = Persisted(tasksFile)
  /\ inflight' = [inflight EXCEPT ![s] =
                    [pc |-> "done", op |-> "create", id |-> inflight[s].id,
                     status |-> 201]]
  /\ UNCHANGED <<now, nextId>>

(* PUT /api/tasks/:id up to `await Task.findAll()` *)
BeginUpdate(s, id, body) ==
  /\ ~Suspended(s)
  /\ tasksFile' = FindAll(tasksFile).file
  /\ inflight' = [inflight EXCEPT ![s] =
                    [pc |-> "loaded", op |-> "update", body |-> body, id |-> id,
                     file |-> FindAll(tasksFile).file]]
  /\ UNCHANGED <<now, nextId, before, resp>>

(* PUT /api/tasks/:id from findIndex on: the task is looked up among the tasks
   read earlier, changed and validated, and those tasks are written *)
EndUpdate(s) ==
  /\ Suspended(s)
  /\ inflight[s].op = "update"
  /\ \E r \in {TaskUpdate(inflight[s].file, inflight[s].id,
                          UpdateData(inflight[s].body), now)} :
         /\ tasksFile' = IF r.found /\ r.ok THEN r.file ELSE tasksFile
         /\ resp' = IF ~r.found
                      THEN [op |-> "update", id |-> inflight[s].id, status |-> 404,
                            body |-> inflight[s].body, error |-> TaskNotFound]
                    ELSE IF ~r.ok
                      THEN [op |-> "update", id |-> inflight[s].id, status |-> 400,
                            body |-> inflight[s].body,
                            error |-> "Validation failed", details |-> r.errors]
                    ELSE [op |-> "update", id |-> inflight[s].id, status |-> 200,
                          body |-> inflight[s].body, data |-> ToJSON(r.task)]
         /\ inflight' = [inflight EXCEPT ![s] =
                           [pc |-> "done", op |-> "update", id |-> inflight[s].id,
                            body |-> inflight[s].body,
                            status |-> IF ~r.found THEN 404
                                       ELSE IF ~r.ok THEN 400 ELSE 200]]
  /\ before' = Persisted(tasksFile)
  /\ UNCHANGED <<now, nextId>>

(* creations and title updates, two requests at a time *)
NextConcurrent ==
  \/ \E s \in Slots : BeginCreate(s, [title |-> <<"a">>])
  \/ \E s \in Slots : EndCreate(s)
  \/ \E s \in Slots, id \in Ids : BeginUpdate(s, id, [title |-> <<"c">>])
  \/ \E s \in Slots : EndUpdate(s)

SpecConcurrent == Init /\ [][NextConcurrent]_vars

(* the sessions opened on the tasks of a file, the running one included *)
OpenedIn(f) ==
  SumSessions(LoadTracked(f).tasks)
  + Cardinality({i \in 1..Len(Persisted(f)) : TimeTrackingOf(Persisted(f)[i]).isActive})

(* POST /api/tasks/:id/timer/start up to `await Task.findById(id)` *)
BeginTimerStart(s, id) ==
  /\ ~Suspended(s)
  /\ \E found \in {FindById(tasksFile, id)} :
         /\ tasksFile' = found.file
         /\ IF ~found.found
              THEN /\ resp' = [op |-> "timerStart", id |-> id, status |-> 404,
                               error |-> TaskNotFound]
                   /\ before' = Persisted(tasksFile)
                   /\ UNCHANGED inflight
              ELSE /\ inflight' = [inflight EXCEPT ![s] =
                                     [pc |-> "loaded", op |-> "timerStart", id |-> id,
                                      index |-> found.index, file |-> found.file]]
                   /\ UNCHANGED <<before, resp>>
  /\ UNCHANGED <<now, nextId>>

(* a start that saves record by record: it writes the records it changed into
   the collection as the file holds it at the time of the save *)
EndTimerStartSavesRecords(s) ==
  /\ Suspended(s)
  /\ inflight[s].op = "timerStart"
  /\ \E r \in {StartTimeTracking(inflight[s].file, inflight[s].index, now)} :
         /\ r.ok => OpenedIn(inflight[s].file) < MaxSessions
         /\ tasksFile' =
              IF r.ok
                THEN WriteTasks(
                       [j \in 1..Len(Persisted(tasksFile)) |->
                          IF /\ j <= Len(Persisted(r.file))
                             /\ TimeTrackingOf(Persisted(r.file)[j])
                                  # TimeTrackingOf(Persisted(inflight[s].file)[j])
                            THEN Persisted(r.file)[j]
                            ELSE Persisted(tasksFile)[j]])
                ELSE tasksFile
         /\ resp' = IF r.ok
                      THEN [op |-> "timerStart", id |-> inflight[s].id, status |-> 200,
                            task |-> Serialize(r.task)]
                      ELSE [op |-> "timerStart", id |-> inflight[s].id, status |-> 400,
                            error |-> r.error]
         /\ inflight' = [inflight EXCEPT ![s] =
                           [pc |-> "done", op |-> "timerStart", id |-> inflight[s].id,
                            status |-> IF r.ok THEN 200 ELSE 400]]
  /\ before' = Persisted(tasksFile)
  /\ UNCHANGED <<now, nextId>>

(* POST /api/tasks/:id/timer/start from `await task.startTimeTracking()` on:
   the start works on the tasks read earlier and writes them *)
EndTimerStart(s) ==
  /\ Suspended(s)
  /\ inflight[s].op = "timerStart"
  /\ \E r \in {StartTimeTracking(inflight[s].file, inflight[s].index, now)} :
         /\ r.ok => OpenedIn(inflight[s].file) < MaxSessions
         /\ tasksFile' = IF r.ok THEN r.file ELSE tasksFile
         /\ resp' = IF r.ok
                      THEN [op |-> "timerStart", id |-> inflight[s].id, status |-> 200,
                            task |-> Serialize(r.task)]
                      ELSE [op |-> "timerStart", id |-> inflight[s].id, status |-> 400,
                            error |-> r.error]
         /\ inflight' = [inflight EXCEPT ![s] =
                           [pc |-> "done", op |-> "timerStart", id |-> inflight[s].id,
                            status |-> IF r.ok THEN 200 ELSE 400]]
  /\ before' = Persisted(tasksFile)
  /\ UNCHANGED <<now, nextId>>

(* timer starts, two requests at a time, on a collection built beforehand *)
NextConcurrentTimer ==
  \/ Create([title |-> <<"a">>], 0)
  \/ \E s \in Slots, id \in Ids : BeginTimerStart(s, id)
  \/ \E s \in Slots : EndTimerStart(s)

SpecConcurrentTimer == Init /\ [][NextConcurrentTimer]_vars

(* ---- reading the persisted collection -------------------------------- *)
Collection == Persisted(tasksFile)

HasId(tasks, id) == \E i \in 1..Len(tasks) : tasks[i].id = id

Record(tasks, id) == tasks[CHOOSE i \in 1..Len(tasks) : tasks[i].id = id]

Tracking(tasks, id) == TimeTrackingOf(Record(tasks, id))

IdsOf(tasks) == {tasks[i].id : i \in 1..Len(tasks)}

Running(tasks) == {id \in IdsOf(tasks) : Tracking(tasks, id).isActive}

Last(s) == s[Len(s)]

(* the record a stop appends to sessions: it opens at the session's start and
   its duration is end - start *)
Finalized(old, new) ==
  /\ Len(new.sessions) = Len(old.sessions) + 1
  /\ SubSeq(new.sessions, 1, Len(old.sessions)) = old.sessions
  /\ DOMAIN Last(new.sessions) = {"start", "end", "duration"}
  /\ Last(new.sessions).start = old.activeSessionStart
  /\ Last(new.sessions).duration = Last(new.sessions).end - Last(new.sessions).start
  /\ new.totalTime = old.totalTime + Last(new.sessions).duration
  /\ new.isActive = FALSE
  /\ new.activeSessionStart = NoInstant

(* C1: after any sequence of timer start, stop and stop-all calls at most one
   task of the persisted collection has timeTracking.isActive = TRUE. *)
C1_AtMostOneActive == Cardinality(Running(Collection)) <= 1

C1_Witness ==
  /\ resp.op = "timerStart" /\ resp.status = 200
  /\ Running(before) # {} /\ resp.id \notin Running(before)
  /\ Running(Collection) = {resp.id}

(* C2: a timer start on B while another task A is running succeeds; A is
   finalized (one new session, totalTime raised by its duration, not active)
   no later than B's session opens, and B is active. *)
C2_StartFinalizesOther ==
  (/\ resp.op = "timerStart"
   /\ HasId(before, resp.id)
   /\ resp.id \notin Running(before)
   /\ Running(before) # {})
  => /\ resp.status = 200
     /\ Tracking(Collection, resp.id).isActive
     /\ \A a \in Running(before) :
          /\ Finalized(Tracking(before, a), Tracking(Collection, a))
          /\ Last(Tracking(Collection, a).sessions).end
               <= Tracking(Collection, resp.id).activeSessionStart

C2_Witness ==
  /\ resp.op = "timerStart" /\ resp.status = 200
  /\ \E a \in Running(before) :
       /\ a # resp.id
       /\ Len(Tracking(Collection, a).sessions) = 2
       /\ Tracking(Collection, a).totalTime > 0

(* C3: a timer start on a task that is itself running fails with the
   'already active' conflict and leaves the persisted collection unchanged. *)
C3_StartOnRunningFails ==
  (resp.op = "timerStart" /\ resp.id \in Running(before))
  => /\ resp.status = 400
     /\ resp.error = AlreadyActive
     /\ Collection = before

C3_Witness ==
  /\ resp.op = "timerStart" /\ resp.id \in Running(before)
  /\ Len(before) = 2
  /\ resp.status = 400

(* C4: a timer stop on an existing task with no active session fails with the
   'no active session' conflict and mutates nothing. *)
C4_StopOnIdleFails ==
  (/\ resp.op = "timerStop"
   /\ HasId(before, resp.id)
   /\ resp.id \notin Running(before))
  => /\ resp.status = 400
     /\ resp.error = NoActiveSession
     /\ Collection = before

C4_Witness ==
  /\ resp.op = "timerStop" /\ resp.status = 400
  /\ HasId(before, resp.id)
  /\ Running(before) # {}
  /\ Tracking(before, resp.id).totalTime > 0

(* C5: a successful timer stop appends exactly one {start, end, duration}
   record with start the previous activeSessionStart and duration = end -
   start, keeps the earlier records, adds the duration to totalTime and
   leaves the task idle with no start instant. *)
C5_StopAppendsSession ==
  (resp.op = "timerStop" /\ resp.status = 200)
  => /\ resp.id \in Running(before)
     /\ Finalized(Tracking(before, resp.id), Tracking(Collection, resp.id))
     /\ Last(Tracking(Collection, resp.id).sessions).end <= now
     /\ Last(Tracking(Collection, resp.id).sessions).duration >= 0
     /\ resp.task.timeTracking = Tracking(Collection, resp.id)

C5_Witness ==
  /\ resp.op = "timerStop" /\ resp.status = 200
  /\ Len(Tracking(before, resp.id).sessions) = 1
  /\ Last(Tracking(Collection, resp.id).sessions).duration = 1

RECURSIVE SumDurations(_)
SumDurations(sessions) ==
  IF sessions = <<>> THEN 0
  ELSE Head(sessions).duration + SumDurations(Tail(sessions))

(* C6: for every task totalTime is the sum of its sessions' durations, and
   no request lowers the totalTime of a task that stays in the collection. *)
C6_TotalTimeIsSumAndNeverDecreases ==
  /\ \A id \in IdsOf(Collection) :
       Tracking(Collection, id).totalTime
         = SumDurations(Tracking(Collection, id).sessions)
  /\ \A id \in IdsOf(Collection) \cap IdsOf(before) :
       Tracking(Collection, id).totalTime >= Tracking(before, id).totalTime

(* C7: a task update preserves the task's time-tracking data. *)
C7_UpdatePreservesTimeTracking ==
  (resp.op = "update" /\ resp.status = 200)
  => Tracking(Collection, resp.id) = Tracking(before, resp.id)

(* C8: timer start and timer stop with an id that is not in the collection
   answer 'task not found' and leave the persisted collection unchanged. *)
C8_TimerOnMissingIdNotFound ==
  (resp.op \in {"timerStart", "timerStop"} /\ ~HasId(before, resp.id))
  => /\ resp.status = 404
     /\ resp.error = TaskNotFound
     /\ Collection = before

C8_Witness ==
  /\ resp.op \in {"timerStart", "timerStop"} /\ ~HasId(before, resp.id)
  /\ Running(before) # {}
  /\ Running(Collection) = Running(before)

(* C9: stop-all returns exactly the tasks that were running, finalizes a
   session on each, leaves no task active, and with nothing running returns
   the empty list and changes nothing. *)
C9_StopAllStopsEveryRunning ==
  (resp.op = "timerStopAll")
  => /\ {resp.stoppedTasks[j].id : j \in 1..Len(resp.stoppedTasks)} = Running(before)
     /\ Len(resp.stoppedTasks) = Cardinality(Running(before))
     /\ \A a \in Running(before) :
          Finalized(Tracking(before, a), Tracking(Collection, a))
     /\ Running(Collection) = {}
     /\ Running(before) = {} => (resp.stoppedTasks = <<>> /\ Collection = before)

C9_Witness ==
  /\ resp.op = "timerStopAll"
  /\ Len(resp.stoppedTasks) = 1
  /\ Len(before) = 2

RECURSIVE SumOver(_, _)
SumOver(S, f) ==
  IF S = {} THEN 0
  ELSE LET x == CHOOSE y \in S : TRUE IN f[x] + SumOver(S \ {x}, f)

(* C10: the timer statistics are the aggregates of the current collection:
   the sum of totalTime, the number of tasks with totalTime > 0, the sum of
   the sessions lengths, and totalTimeTracked / totalSessions (0 when there
   is no session). *)
C10_StatsAreAggregates ==
  (resp.op = "timerStats")
  => LET idx == 1..Len(Collection)
         tt == [i \in idx |-> TimeTrackingOf(Collection[i])]
         st == resp.stats
     IN  /\ st.totalTimeTracked = SumOver(idx, [i \in idx |-> tt[i].totalTime])
         /\ st.tasksWithTimeCount = Cardinality({i \in idx : tt[i].totalTime > 0})
         /\ st.totalSessions = SumOver(idx, [i \in idx |-> Len(tt[i].sessions)])
         /\ st.averageSessionDuration.den > 0
         /\ IF st.totalSessions = 0
              THEN st.averageSessionDuration.num = 0
              ELSE st.averageSessionDuration.num * st.totalSessions
                     = st.totalTimeTracked * st.averageSessionDuration.den

C10_Witness ==
  /\ resp.op = "timerStats"
  /\ resp.stats.totalSessions = 3
  /\ resp.stats.tasksWithTimeCount = 1
  /\ resp.stats.totalTimeTracked = 1
(* ---- creation ---------------------------------------------------------- *)
(* the rules of the Task entity a request body breaks *)
BrokenRules(body) ==
  (IF ~Has(body, "title") \/ NoText(body.title) \/ Len(Trim(body.title)) = 0
        \/ Len(Trim(body.title)) > MaxTitleLength
     THEN {"title"} ELSE {})
  \cup (IF Has(body, "description") /\ ~NoText(body.description)
           /\ Len(Trim(body.description)) > MaxDescriptionLength
     THEN {"description"} ELSE {})
  \cup (IF Has(body, "priority") /\ body.priority # ""
           /\ body.priority \notin {"high", "medium", "low"}
     THEN {"priority"} ELSE {})
  \cup (IF Has(body, "category") /\ ~NoText(body.category)
           /\ Len(body.category) > MaxCategoryLength
     THEN {"category"} ELSE {})
  \cup (IF Has(body, "dueDate") /\ ~NoText(body.dueDate)
           /\ body.dueDate \notin ParseableDates
     THEN {"dueDate"} ELSE {})

(* C11: a create whose data breaks a validation rule fails with a validation
   error that lists every violation, and the persisted collection after it is
   the one before it. *)
C11_InvalidCreateWritesNothing ==
  (resp.op = "create" /\ BrokenRules(resp.body) # {})
  => /\ resp.status = 400
     /\ resp.error = "Validation failed"
     /\ Len(resp.details) = Cardinality(BrokenRules(resp.body))
     /\ Collection = before

C11_Witness ==
  /\ resp.op = "create" /\ resp.status = 400
  /\ Cardinality(BrokenRules(resp.body)) = 2
  /\ Len(before) = 1
  /\ Collection = before

(* C12: a valid create appends the new task at the end of the collection and
   persists it, leaves every earlier task and the order as they were, and
   gives the fields the body lacks their defaults: completed false, priority
   'medium', category 'general', description '', dueDate null. *)
C12_CreateAppendsWithDefaults ==
  (resp.op = "create" /\ resp.status = 201)
  => /\ Len(Collection) = Len(before) + 1
     /\ SubSeq(Collection, 1, Len(before)) = before
     /\ Last(Collection) = resp.data
     /\ resp.data.completed = JsFalse
     /\ ~Has(resp.body, "priority") => resp.data.priority = "medium"
     /\ ~Has(resp.body, "category") => resp.data.category = General
     /\ ~Has(resp.body, "description") => resp.data.description = <<>>
     /\ ~Has(resp.body, "dueDate") => resp.data.dueDate = Null

(* C13: the task a valid create returns has an id that no task of the
   collection had, the ids of the persisted collection are pairwise distinct,
   and its createdAt equals its updatedAt. *)
C13_FreshIdAndEqualTimestamps ==
  (resp.op = "create" /\ resp.status = 201)
  => /\ resp.data.id \notin IdsOf(before)
     /\ \A i, j \in 1..Len(Collection) :
          Collection[i].id = Collection[j].id => i = j
     /\ resp.data.createdAt = resp.data.updatedAt
(* ---- update ------------------------------------------------------------ *)
PlainFields == {"title", "description", "completed", "priority", "category", "dueDate"}

(* the index in tasks of the task with this id *)
IndexOf(tasks, id) == CHOOSE i \in 1..Len(tasks) : tasks[i].id = id

(* C14: an update with an id that is not in the collection answers 'not
   found', whatever the partial holds and also when it would be invalid, and
   the persisted collection is unchanged. *)
C14_UpdateOnMissingIdNotFound ==
  (resp.op = "update" /\ ~HasId(before, resp.id))
  => /\ resp.status = 404
     /\ resp.error = TaskNotFound
     /\ Collection = before

C14_Witness ==
  /\ resp.op = "update" /\ ~HasId(before, resp.id)
  /\ resp.body = [title |-> <<>>]
  /\ before # <<>>
  /\ resp.status = 404

(* C15: an update changes only the fields its partial holds: the fields of
   the target that the partial lacks, its id and createdAt, and every other
   task stay as they were; with an empty partial only updatedAt changes, and
   it strictly increases. *)
C15_UpdateChangesOnlyGivenFields ==
  (resp.op = "update" /\ resp.status = 200)
  => LET i == IndexOf(before, resp.id)
         old == before[i]
         new == Collection[i]
     IN  /\ Len(Collection) = Len(before)
         /\ \A j \in 1..Len(before) : j # i => Collection[j] = before[j]
         /\ new.id = old.id
         /\ new.createdAt = old.createdAt
         /\ \A k \in PlainFields \ DOMAIN resp.body : new[k] = old[k]
         /\ TimeTrackingOf(new) = TimeTrackingOf(old)
         /\ (DOMAIN resp.body \cap PlainFields = {}) => new.updatedAt > old.updatedAt

(* the value the store keeps for a supplied one: title and description are
   trimmed *)
Kept(k, v) == IF k \in {"title", "description"} THEN Trim(v) ELSE v

(* C16: for each of title, description, completed, priority, category and
   dueDate that a valid update partial holds, the persisted and the returned
   task carry the supplied value: {dueDate: null} clears the due date and
   {priority: 'high'} makes a low-priority task high. *)
C16_UpdateStoresGivenFields ==
  (resp.op = "update" /\ resp.status = 200)
  => \A k \in DOMAIN resp.body \cap PlainFields :
       /\ resp.data[k] = Kept(k, resp.body[k])
       /\ Record(Collection, resp.id)[k] = Kept(k, resp.body[k])

(* the stored record with the partial's values put in *)
Merged(old, body) ==
  [k \in PlainFields |-> IF Has(body, k) THEN body[k] ELSE old[k]]

(* C17: an update whose resulting task breaks a rule (title '', priority
   'invalid', dueDate 'invalid-date') fails with a validation error and
   writes nothing: the persisted task keeps its values and its updatedAt. *)
C17_InvalidUpdateWritesNothing ==
  (/\ resp.op = "update"
   /\ HasId(before, resp.id)
   /\ BrokenRules(Merged(Record(before, resp.id), resp.body)) # {})
  => /\ resp.status = 400
     /\ resp.error = "Validation failed"
     /\ Collection = before
(* ---- delete ------------------------------------------------------------ *)
(* C18: delete(id) on an id of the collection removes that task and no other,
   keeps the other tasks and their order, and returns true; a delete of an id
   that is no longer there returns false and leaves the collection as it was;
   an id that has left the collection never comes back, so findById(id) is
   'not found' from then on. *)
C18_DeleteRemovesExactlyOne ==
  /\ (resp.op = "delete" /\ HasId(before, resp.id))
     => /\ resp.status = 200
        /\ Collection = RemoveAt(before, IndexOf(before, resp.id))
        /\ ~FindById(tasksFile, resp.id).found
  /\ (resp.op = "delete" /\ ~HasId(before, resp.id))
     => /\ resp.status = 404
        /\ Collection = before
  /\ \A id \in IdsOf(Collection) \ IdsOf(before) :
       resp.op = "create" /\ id = resp.data.id /\ id = nextId - 1
  /\ \A id \in IdsOf(before) \cup IdsOf(Collection) : id < nextId
(* ---- queries ----------------------------------------------------------- *)
(* the set of the elements of a sequence *)
Range(s) == {s[i] : i \in 1..Len(s)}

(* C19: in every reachable collection findByStatus(true) and
   findByStatus(false) are disjoint and together hold exactly the tasks of
   findAll(): every task is in exactly one of the two results. *)
C19_StatusPartitionsFindAll ==
  LET all == FindAll(tasksFile).tasks
      done == FindByStatus(tasksFile, JsTrue).tasks
      open == FindByStatus(tasksFile, JsFalse).tasks
  IN  /\ Range(done) \cap Range(open) = {}
      /\ Range(done) \cup Range(open) = Range(all)
      /\ Len(done) + Len(open) = Len(all)
      /\ \A i \in 1..Len(all) :
           (all[i] \in Range(done)) # (all[i] \in Range(open))

C19_Witness ==
  /\ resp.op = "list"
  /\ Len(Collection) = 2
  /\ Collection[1].completed = "'yes'"
  /\ Collection[2].completed = JsFalse
  /\ Len(FindByStatus(tasksFile, JsTrue).tasks) = 1
  /\ Len(FindByStatus(tasksFile, JsFalse).tasks) = 1

(* the weight of a priority in the ordering: high 3, medium 2, low 1, and 2
   for any other value *)
Weight(priority) ==
  IF priority = "high" THEN 3 ELSE IF priority = "low" THEN 1 ELSE 2

(* C20: under every query the list the listing returns is ordered: for every
   adjacent pair (a, b) either a weighs more than b, or they weigh the same
   and a.createdAt >= b.createdAt. *)
C20_ListIsOrdered ==
  (resp.op = "list")
  => \A i \in 1..(Len(resp.data) - 1) :
       LET a == resp.data[i]
           b == resp.data[i + 1]
       IN  \/ Weight(a.priority) > Weight(b.priority)
           \/ Weight(a.priority) = Weight(b.priority) /\ a.createdAt >= b.createdAt

C20_Witness ==
  /\ resp.op = "list"
  /\ Len(resp.data) = 2
  /\ resp.data[1].priority = resp.data[2].priority
  /\ resp.data[1].createdAt > resp.data[2].createdAt
  /\ resp.data[1].id > resp.data[2].id
(* ---- search ------------------------------------------------------------ *)
(* q occurs in s as a run of consecutive characters *)
Contains(s, q) ==
  \E i \in 1..(Len(s) + 1) :
    /\ i + Len(q) - 1 <= Len(s)
    /\ \A k \in 1..Len(q) : s[i + k - 1] = q[k]

(* the record's title, description or category contains q once lower-cased *)
TextContains(record, q) ==
  \/ Contains(ToLowerCase(record.title), q)
  \/ Contains(ToLowerCase(record.description), q)
  \/ Contains(ToLowerCase(record.category), q)

(* the query without one of its parameters *)
Without(query, key) == [k \in DOMAIN query \ {key} |-> query[k]]

(* what the listing returns for the query without its search string *)
ListedWithoutSearch == Range(ToJSONAll(GetTasks(tasksFile, Without(resp.query, "search")).tasks))

(* C21 as stated: with a search string that is non-empty after trimming the
   listing keeps exactly the tasks whose lower-cased title, description or
   category contains the lower-cased search string; an empty or blank search
   string keeps every task that passed the other filters. *)
C21_SearchKeepsMatchesOfSearchString ==
  (resp.op = "list" /\ Has(resp.query, "search"))
  => Range(resp.data) =
       IF Trim(resp.query.search) # <<>>
         THEN {t \in ListedWithoutSearch : TextContains(t, ToLowerCase(resp.query.search))}
         ELSE ListedWithoutSearch

(* C21 as amended: the string looked for is the search string trimmed and
   lower-cased. *)
C21_SearchKeepsMatchesOfTrimmedString ==
  (resp.op = "list" /\ Has(resp.query, "search"))
  => Range(resp.data) =
       IF Trim(resp.query.search) # <<>>
         THEN {t \in ListedWithoutSearch :
                 TextContains(t, Trim(ToLowerCase(resp.query.search)))}
         ELSE ListedWithoutSearch

C21_Witness ==
  /\ resp.op = "list"
  /\ resp.query = [search |-> <<" ", "x", " ">>]
  /\ Len(Collection) = 2
  /\ Collection[1].title = <<"c">> /\ Collection[1].description = <<"x", "Y">>
  /\ Collection[2].priority = "high"
  /\ Len(resp.data) = 1
(* ---- statistics -------------------------------------------------------- *)
(* C22: the statistics are those of the current persisted collection: total
   is the number of tasks, completed the number of completed ones, active =
   total - completed, and completionRate = completed / total * 100 when
   total > 0 and 0 when total = 0, with no division by zero. *)
C22_StatisticsOfCollection ==
  (resp.op = "stats")
  => LET st == resp.data
         done == {i \in 1..Len(Collection) : Collection[i].completed \notin Falsy}
     IN  /\ st.total = Len(Collection)
         /\ st.completed = Cardinality(done)
         /\ st.active = st.total - st.completed
         /\ st.completionRate.den > 0
         /\ IF st.total = 0
              THEN st.completionRate.num = 0
              ELSE st.completionRate.num * st.total
                     = st.completed * 100 * st.completionRate.den

C22_Witness ==
  /\ resp.op = "stats"
  /\ resp.data.total = 2
  /\ resp.data.completed = 1
  /\ resp.data.completionRate = [num |-> 100, den |-> 2]
  /\ \E i \in 1..2 : Collection[i].completed = "'yes'"
(* ---- the store ---------------------------------------------------------- *)
(* C23: a load of a missing file creates it holding the empty sequence and
   returns the empty sequence; a load of a file with unparseable content
   returns the empty sequence and leaves the file as it is; a load of a
   parseable file returns its content. *)
C23_LoadRecoversMissingAndUnparseable ==
  (resp.op = "load")
  => /\ ~resp.file.exists
          => resp.tasks = <<>> /\ tasksFile = [exists |-> TRUE, valid |-> TRUE, data |-> <<>>]
     /\ (resp.file.exists /\ ~resp.file.valid)
          => resp.tasks = <<>> /\ tasksFile = resp.file
     /\ (resp.file.exists /\ resp.file.valid)
          => resp.tasks = resp.file.data /\ tasksFile = resp.file

C23_Witness ==
  /\ resp.op = "load"
  /\ resp.file.exists /\ ~resp.file.valid
  /\ nextId > 1
  /\ resp.tasks = <<>>

(* the change a completed request made is in the persisted collection *)
Reflected(s) ==
  IF inflight[s].op = "create"
    THEN HasId(Collection, inflight[s].id)
  ELSE IF inflight[s].op = "update" /\ inflight[s].status = 200
    THEN /\ HasId(Collection, inflight[s].id)
         /\ Record(Collection, inflight[s].id).title = inflight[s].body.title
  ELSE TRUE

(* C24: the load, mutate and save of a mutating request are atomic with
   respect to the other requests: when two mutating requests (two creations,
   or a creation and an update of another task) were in flight together and
   both have completed, the persisted collection holds the change of each, as
   it would had they run one after the other *)
C24_ConcurrentChangesBothPersist ==
  (\A s \in Slots : inflight[s].pc = "done") => \A s \in Slots : Reflected(s)

(* C25: after any sequence of creations, updates and deletions from an empty
   store, every task of the persisted collection has a priority among high,
   medium and low, a category of at most 50 characters, a title of 1 to 200
   characters, a description of at most 1000 characters, and an updatedAt
   that is not before its createdAt *)
C25_PersistedTasksKeepTheRules ==
  \A i \in 1..Len(Collection) :
    /\ Collection[i].priority \in {"high", "medium", "low"}
    /\ Len(Collection[i].category) <= MaxCategoryLength
    /\ Len(Collection[i].title) >= 1
    /\ Len(Collection[i].title) <= MaxTitleLength
    /\ Len(Collection[i].description) <= MaxDescriptionLength
    /\ Collection[i].updatedAt >= Collection[i].createdAt

C25_Witness ==
  /\ resp.op = "update" /\ resp.status = 400
  /\ Len(Collection) = 2
  /\ Len(Collection[1].title) = MaxTitleLength
  /\ Len(Collection[1].description) = MaxDescriptionLength
  /\ Len(Collection[1].category) = MaxCategoryLength
  /\ Collection[2].title = <<"c">>
  /\ Collection[2].updatedAt > Collection[2].createdAt

(* the messages of the rules a task breaks, each rule judged on trimmed text *)
ViolationsOf(t) ==
  (IF NoText(t.title) \/ Len(Trim(t.title)) = 0
     THEN {"Title is required"} ELSE {})
  \cup (IF ~NoText(t.title) /\ Len(Trim(t.title)) > MaxTitleLength
     THEN {"Title must be less than 200 characters"} ELSE {})
  \cup (IF ~NoText(t.description) /\ Len(Trim(t.description)) > MaxDescriptionLength
     THEN {"Description must be less than 1000 characters"} ELSE {})
  \cup (IF t.priority \notin {"high", "medium", "low"}
     THEN {"Priority must be high, medium, or low"} ELSE {})
  \cup (IF ~NoText(t.category) /\ Len(t.category) > MaxCategoryLength
     THEN {"Category must be less than 50 characters"} ELSE {})
  \cup (IF ~NoText(t.dueDate) /\ t.dueDate \notin ParseableDates
     THEN {"Due date must be a valid date"} ELSE {})

(* C26: validate() returns the complete list of violations, judged on trimmed
   text: one entry for each rule the task breaks (title empty after trimming,
   title over 200 characters after trimming, description over 1000 characters
   after trimming, priority outside the enum, category over 50 characters,
   unparseable dueDate) and no entry for a rule the task keeps *)
C26_ValidateListsViolationsOfTrimmedText ==
  (resp.op = "validate")
  => /\ Range(resp.errors) = ViolationsOf(resp.task)
     /\ Len(resp.errors) = Cardinality(ViolationsOf(resp.task))

(* C27: in every reachable state and for every task, timeTracking.isActive is
   true exactly when timeTracking.activeSessionStart is an instant: no task is
   persisted active without a start instant, nor with a start instant while
   not active *)
C27_ActiveExactlyWhenStarted ==
  \A i \in 1..Len(Collection) :
    TimeTrackingOf(Collection[i]).isActive
      <=> (TimeTrackingOf(Collection[i]).activeSessionStart # NoInstant)

C27_Witness ==
  /\ Len(Collection) = 2
  /\ TimeTrackingOf(Collection[1]).isActive
  /\ TimeTrackingOf(Collection[1]).activeSessionStart = now
  /\ TimeTrackingOf(Collection[1]).sessions # <<>>
  /\ ~TimeTrackingOf(Collection[2]).isActive
  /\ TimeTrackingOf(Collection[2]).activeSessionStart = NoInstant
  /\ TimeTrackingOf(Collection[2]).sessions # <<>>

(* the tasks a successful timer request acts on: its target and, for a start,
   the tasks that were running *)
Affected ==
  {resp.id} \cup (IF resp.op = "timerStart" THEN Running(before) ELSE {})

(* C28: a successful timer start or stop changes only the timeTracking subtree
   and the updatedAt of the tasks it affects (the target and, on a start, any
   other task that was running): the title, description, completed, priority,
   category, dueDate, id and createdAt of every task, and the membership and
   order of the collection, are unchanged *)
C28_TimerChangesOnlyTimeTracking ==
  (resp.op \in {"timerStart", "timerStop"} /\ resp.status = 200)
  => /\ Len(Collection) = Len(before)
     /\ \A i \in 1..Len(before) :
          /\ Collection[i].id = before[i].id
          /\ Collection[i].createdAt = before[i].createdAt
          /\ \A k \in PlainFields : Collection[i][k] = before[i][k]
          /\ before[i].id \notin Affected
               => /\ Collection[i].updatedAt = before[i].updatedAt
                  /\ TimeTrackingOf(Collection[i]) = TimeTrackingOf(before[i])

C28_Witness ==
  /\ resp.op = "timerStart" /\ resp.status = 200
  /\ Len(before) = 2
  /\ before[1].title # before[2].title
  /\ Running(before) = {before[1].id}
  /\ resp.id = before[2].id
  /\ Collection[1].updatedAt > before[1].updatedAt
  /\ TimeTrackingOf(Collection[1]) # TimeTrackingOf(before[1])

(* the four filter steps of a listing *)
Steps == {"status", "search", "priority", "category"}

(* the task passes one filter of the query, taken alone *)
Passes(step, task, query) ==
  IF step = "status"
    THEN IF ~Has(query, "status") THEN TRUE
         ELSE IF query.status = "active" THEN task.completed = JsFalse
         ELSE IF query.status = "completed" THEN task.completed = JsTrue
         ELSE TRUE
  ELSE IF step = "search"
    THEN IF ~Has(query, "search") \/ Trim(query.search) = <<>> THEN TRUE
         ELSE SearchMatch(task, Trim(ToLowerCase(query.search)))
  ELSE IF step = "priority"
    THEN IF ~Has(query, "priority") \/ query.priority = "all" THEN TRUE
         ELSE task.priority = query.priority
  ELSE IF ~Has(query, "category") \/ query.category = All THEN TRUE
       ELSE task.category = query.category

(* the four steps in each of their orders *)
Orders ==
  {order \in [1..4 -> Steps] : \A i, j \in 1..4 : order[i] = order[j] => i = j}

(* the tasks left when the steps from the i-th on are applied in this order *)
RECURSIVE InOrder(_, _, _, _)
InOrder(order, i, tasks, query) ==
  IF i > 4 THEN tasks
  ELSE InOrder(order, i + 1,
               Filter(tasks, [j \in 1..Len(tasks) |-> Passes(order[i], tasks[j], query)]),
               query)

(* C29: the status, search, priority and category filters of a listing
   compose by intersection: the listed tasks are exactly the tasks of the
   collection that pass each of the four filters taken alone, whatever the
   order in which the four steps are applied; a status other than 'active'
   and 'completed', and 'all' for priority or category, filter nothing *)
C29_FiltersIntersect ==
  (resp.op = "list")
  => LET all == TasksOf(before)
         listed == IdsOf(resp.data)
     IN  /\ Len(resp.data) = Cardinality(listed)
         /\ listed = {all[i].id : i \in {j \in 1..Len(all) :
                                          \A step \in Steps : Passes(step, all[j], resp.query)}}
         /\ \A order \in Orders : IdsOf(InOrder(order, 1, all, resp.query)) = listed
         /\ \A step \in Steps :
              LET alone == [k \in DOMAIN resp.query \cap {step} |-> resp.query[k]]
              IN  listed \subseteq IdsOf(GetTasks(WriteTasks(before), alone).tasks)
         /\ (/\ QueryOr(resp.query, "status", "all") \notin {"active", "completed"}
             /\ QueryOr(resp.query, "priority", "all") = "all"
             /\ QueryOr(resp.query, "category", All) = All
             /\ ~Has(resp.query, "search"))
            => Len(resp.data) = Len(before)

C29_Witness ==
  /\ resp.op = "list"
  /\ DOMAIN resp.query = Steps
  /\ Len(before) = 2
  /\ Len(resp.data) = 1
  /\ \E i \in 1..2 :
       /\ before[i].id \notin IdsOf(resp.data)
       /\ Passes("status", TasksOf(before)[i], resp.query)
       /\ Passes("priority", TasksOf(before)[i], resp.query)
       /\ ~Passes("category", TasksOf(before)[i], resp.query)

(* C30: at most one task is active also when two timer-start requests for two
   different idle tasks are in flight together and interleave between the
   load of the collection and its save: after both have completed (and at
   every state before), no two tasks of the persisted collection are active *)
C30_ConcurrentStartsLeaveOneActive ==
  \A a, b \in IdsOf(Collection) :
    (Tracking(Collection, a).isActive /\ Tracking(Collection, b).isActive) => a = b

(* both starts succeeded; the second save found the other task running and
   left it idle with no session recorded, as the collection it had loaded
   before the first save held it *)
C30_Witness ==
  /\ resp.op = "timerStart" /\ resp.status = 200
  /\ \A s \in Slots : inflight[s].pc = "done" /\ inflight[s].op = "timerStart"
                        /\ inflight[s].status = 200
  /\ inflight["first"].id # inflight["second"].id
  /\ Cardinality(Running(before)) = 1
  /\ resp.id \notin Running(before)
  /\ Running(Collection) = {resp.id}
  /\ \A other \in Running(before) : Tracking(Collection, other).sessions = <<>>

====
